---- MODULE Spec2Model ----
(***************************************************************************)
(* The timedate service of sundial (sundiald/src/dbus.rs, util.rs): the    *)
(* org.freedesktop.timedate1 object, its authorization gate and the host   *)
(* state its handlers read.                                                *)
(*                                                                         *)
(* A handler is an async fn.  The only suspension point at which another   *)
(* party decides the outcome is the round trip to the policy authority     *)
(* (check_auth, dbus.rs:246-259), so a call is modelled in two steps: the  *)
(* part of the handler up to the request (or up to an early return), and   *)
(* the part from the authority's answer to the reply.                      *)
(***************************************************************************)
EXTENDS Integers, Sequences, FiniteSets, TLC

VARIABLES
    policy,     \* what the policy authority answers to a request right now
    cap,        \* what caps::has_cap(CAP_SYS_TIME) answers right now
    adjtime,    \* /etc/adjtime: Absent or its lines
    localtime,  \* /etc/localtime: what canonicalize() resolves it to
    zonetab,    \* /usr/share/zoneinfo/zone.tab: Absent or its lines
    sysclock,   \* the system clock (CLOCK_REALTIME)
    rtc,        \* the content of /dev/rtc
    calls,      \* per peer: the method call it has made and how far it got
    tz,         \* the zone override of the process (TZ at startup), or None
    out         \* the last answer to a read, with the inputs that decided it

vars == <<policy, cap, adjtime, localtime, zonetab, sysclock, rtc, calls, tz, out>>

host == <<adjtime, localtime, zonetab, sysclock, rtc>>

----------------------------------------------------------------------------
(* Bounds of the model *)

\* SetTime is called with usec_utc in -MaxUsec..MaxUsec
MaxUsec == 1
\* the clocks start anywhere in 1..MaxClock
MaxClock == 2

----------------------------------------------------------------------------
(* Values *)

Absent == "absent"

\* Option::None
None == "none"

Peers == {"p1", "p2"}

\* fdo::Result<()>: Ok(()) or one fdo::Error variant with its message.
\* Panic is no reply at all: the handler hit todo!().
Ok == [kind |-> "Ok", msg |-> ""]
InvalidArgs == [kind |-> "InvalidArgs", msg |-> "Invalid absolute time"]
NotSupported == [kind |-> "NotSupported", msg |-> "NTP is not supported"]
AuthRequired == [kind |-> "AuthFailed", msg |-> "Interactive authentication required"]
AuthDenied == [kind |-> "AuthFailed", msg |-> "Does not have CAP_SYS_TIME"]
RtcStatusFailed == [kind |-> "Failed", msg |-> "Couldn't get RTC status"]
TzListFailed == [kind |-> "Failed", msg |-> "Couldn't get timezone list"]
TzFailed == [kind |-> "Failed", msg |-> "Unable to determine local timezone"]
AuthorityError == [kind |-> "ZBus", msg |-> "check_authorization failed"]
Panic == [kind |-> "Panic", msg |-> "not yet implemented"]

\* The answers of the policy authority; "Error" is a failed round trip.
Policies == {"Authorized", "ChallengeRequired", "Denied", "Error"}
\* The answers of caps::has_cap: Ok(true), Ok(false), Err(_).
Caps == {"yes", "no", "err"}

\* polkit's AuthorizationResult for a policy outcome
AuthorizationResult(pol) ==
    [is_authorized |-> pol = "Authorized", is_challenge |-> pol = "ChallengeRequired"]

\* A line that is not valid UTF-8: io::Lines yields Err for it.
BadLine == "\\xff"

----------------------------------------------------------------------------
(* The readers *)

\* util.rs:133-139; File::open fails on an absent file
read_lines(file) ==
    IF file = Absent THEN [ok |-> FALSE, lines |-> <<>>]
    ELSE [ok |-> TRUE, lines |-> file]

\* a LocalRTC that looks at the second line (nth(1))
local_rtc_SecondLine(file) ==
    LET r == read_lines(file) IN
    IF r.ok
    THEN [kind |-> "Ok", msg |-> "",
          val |-> IF Len(r.lines) >= 2 /\ r.lines[2] # BadLine
                  THEN r.lines[2] = "LOCAL"
                  ELSE FALSE]
    ELSE [kind |-> RtcStatusFailed.kind, msg |-> RtcStatusFailed.msg, val |-> FALSE]

\* dbus.rs:144-166, the LocalRTC property
local_rtc(file) ==
    LET r == read_lines(file) IN
    IF r.ok
    THEN [kind |-> "Ok", msg |-> "",
          val |-> IF Len(r.lines) >= 3 /\ r.lines[3] # BadLine
                  THEN r.lines[3] = "LOCAL"
                  ELSE FALSE]
    ELSE [kind |-> RtcStatusFailed.kind, msg |-> RtcStatusFailed.msg, val |-> FALSE]

\* str::starts_with('#') on the tokens of a line: a line is a sequence of
\* tokens, each a blank " " or a word
StartsWithHash(w) == w \in {"#", "#comment"}

\* str::split_whitespace
split_whitespace(ln) == SelectSeq(ln, LAMBDA t : t # " ")

\* a list of the second words (nth(1))
ThirdWords_Second(lines) ==
    LET kept == SelectSeq(lines, LAMBDA ln : ln # <<BadLine>>
                                             /\ ~(Len(ln) > 0 /\ StartsWithHash(ln[1]))
                                             /\ Len(split_whitespace(ln)) >= 2)
    IN [i \in 1..Len(kept) |-> split_whitespace(kept[i])[2]]

\* dbus.rs:113-116: filter, filter_map, collect.  A line of zone.tab that is
\* not valid UTF-8 is the one-token line <<BadLine>>.
RECURSIVE ThirdWords(_)
ThirdWords(lines) ==
    IF lines = <<>> THEN <<>>
    ELSE LET ln == Head(lines)
             keep == ln # <<BadLine>> /\ ~(Len(ln) > 0 /\ StartsWithHash(ln[1]))
             ws == IF keep THEN split_whitespace(ln) ELSE <<>>
         IN (IF keep /\ Len(ws) >= 3 THEN <<ws[3]>> ELSE <<>>) \o ThirdWords(Tail(lines))

\* dbus.rs:109-123, ListTimezones
list_timezones(file) ==
    LET r == read_lines(file) IN
    IF r.ok THEN [kind |-> "Ok", msg |-> "", val |-> ThirdWords(r.lines)]
    ELSE [kind |-> TzListFailed.kind, msg |-> TzListFailed.msg, val |-> <<>>]

\* a Timezone that treats an unresolvable link as a failure
timezone_AbsentFails(link) ==
    IF link \in {"absent", "outside"}
    THEN [kind |-> TzFailed.kind, msg |-> TzFailed.msg, val |-> ""]
    ELSE [kind |-> "Ok", msg |-> "", val |-> link]

\* dbus.rs:126-140, the Timezone property.  The link is Absent, a zone id
\* (it resolves to /usr/share/zoneinfo/<id>) or Outside (it resolves to a
\* path that is not under /usr/share/zoneinfo/).
Outside == "outside"
timezone(link) ==
    IF link = Absent THEN [kind |-> "Ok", msg |-> "", val |-> "UTC"]
    ELSE IF link = Outside THEN [kind |-> TzFailed.kind, msg |-> TzFailed.msg, val |-> ""]
    ELSE [kind |-> "Ok", msg |-> "", val |-> link]

\* src/main.rs:122-136, the Timezone property of the single-binary service:
\* the override taken from TZ at startup (src/main.rs:241) comes first
timezone_tz(override, link) ==
    IF override # None THEN [kind |-> "Ok", msg |-> "", val |-> override]
    ELSE timezone(link)

----------------------------------------------------------------------------
(* The authorization gate *)

\* dbus.rs:252-256
CheckAuthorizationFlags(interactive) ==
    IF interactive THEN {"AllowUserInteraction"} ELSE {}

\* dbus.rs:261-278: whether the gate asks caps::has_cap, given the answer
ConsultsCap(pol) ==
    /\ pol # "Error"
    /\ ~AuthorizationResult(pol).is_authorized
    /\ ~AuthorizationResult(pol).is_challenge

\* a gate that also falls back to the capability on a challenge
check_auth_CapOnChallenge(pol, c) ==
    IF pol = "Error" THEN AuthorityError
    ELSE IF AuthorizationResult(pol).is_authorized THEN Ok
    ELSE IF c = "yes" THEN Ok
    ELSE IF AuthorizationResult(pol).is_challenge THEN AuthRequired
    ELSE AuthDenied

\* a gate without the capability fallback
check_auth_NoFallback(pol, c) ==
    IF pol = "Error" THEN AuthorityError
    ELSE IF AuthorizationResult(pol).is_authorized THEN Ok
    ELSE IF AuthorizationResult(pol).is_challenge THEN AuthRequired
    ELSE AuthDenied

\* a gate whose fallback accepts any answer of has_cap but Err
check_auth_CapInverted(pol, c) ==
    IF pol = "Error" THEN AuthorityError
    ELSE IF AuthorizationResult(pol).is_authorized THEN Ok
    ELSE IF AuthorizationResult(pol).is_challenge THEN AuthRequired
    ELSE IF c # "err" THEN Ok
    ELSE AuthDenied

\* a gate that treats a failed request to the authority as a plain denial
check_auth_ErrorFallsBack(pol, c) ==
    IF pol # "Error" /\ AuthorizationResult(pol).is_authorized THEN Ok
    ELSE IF pol # "Error" /\ AuthorizationResult(pol).is_challenge THEN AuthRequired
    ELSE IF c = "yes" THEN Ok
    ELSE AuthDenied

\* dbus.rs:245-279, from the authority's answer on
check_auth(pol, c) ==
    IF pol = "Error" THEN AuthorityError
    ELSE IF AuthorizationResult(pol).is_authorized THEN Ok
    ELSE IF AuthorizationResult(pol).is_challenge THEN AuthRequired
    ELSE IF c = "yes" THEN Ok
    ELSE AuthDenied

\* a handler that drops the gate's result
GatePasses_Ignored(g) == TRUE

\* the `?` after check_auth(..).await (dbus.rs:38, 53, 87)
GatePasses(g) == g.kind = "Ok"

----------------------------------------------------------------------------
(* The handlers.  The part before the gate either returns a result or      *)
(* proceeds to the gate; the part after the gate yields the reply.         *)

Return(r) == [ret |-> TRUE, res |-> r]
Proceed == [ret |-> FALSE, res |-> Ok]

\* SetTime that does not validate an absolute time
set_time_NoValidation(usec_utc, relative) ==
    IF relative /\ usec_utc = 0 THEN Return(Ok) ELSE Proceed

\* SetTime that sends a relative change of 0 to the gate
set_time_NoShortcut(usec_utc, relative) ==
    IF relative THEN Proceed
    ELSE IF usec_utc <= 0 THEN Return(InvalidArgs) ELSE Proceed

\* dbus.rs:20-38
set_time(usec_utc, relative) ==
    IF relative
    THEN IF usec_utc = 0 THEN Return(Ok) ELSE Proceed
    ELSE IF usec_utc <= 0 THEN Return(InvalidArgs) ELSE Proceed

\* dbus.rs:47-53: neither the validity of the zone nor the current zone is
\* looked at (both are comments)
set_timezone(zone) == Proceed

\* SetLocalRTC without the shortcut
set_local_rtc_NoShortcut(curr, local_rtc_arg, fix_system) ==
    IF curr.kind # "Ok" THEN Return([kind |-> curr.kind, msg |-> curr.msg])
    ELSE Proceed

\* dbus.rs:72-87; curr is the result of self.local_rtc().await
set_local_rtc(curr, local_rtc_arg, fix_system) ==
    IF curr.kind # "Ok" THEN Return([kind |-> curr.kind, msg |-> curr.msg])
    ELSE IF local_rtc_arg = curr.val /\ ~fix_system THEN Return(Ok)
    ELSE Proceed

\* SetNTP that goes through the gate
set_ntp_Gated(use_ntp, interactive) == Proceed

\* dbus.rs:102-106
set_ntp(use_ntp, interactive) == Return(NotSupported)

\* dbus.rs:39-43: nothing is done to the clock (comments only)
set_time_authorized == Ok

\* dbus.rs:54-67: the link is not rewritten; a failed LocalRTC read is todo!()
set_timezone_authorized(file) ==
    IF local_rtc(file).kind = "Ok" THEN Ok ELSE Panic

\* dbus.rs:88-98: a changed mode is todo!(); no clock is synchronised
set_local_rtc_authorized(curr_val, local_rtc_arg) ==
    IF local_rtc_arg # curr_val THEN Panic ELSE Ok

\* the polkit action id of each method (dbus.rs:37, 52, 86)
ActionId(method) ==
    CASE method = "SetTime" -> "org.freedesktop.timedate1.set-time"
      [] method = "SetTimezone" -> "org.freedesktop.timedate1.set-timezone"
      [] method = "SetLocalRTC" -> "org.freedesktop.timedate1.set-local-rtc"
      [] OTHER -> ""

----------------------------------------------------------------------------
(* Calls *)

\* no read made yet
NoOut ==
    [op |-> "none", kind |-> "", msg |-> "", b |-> FALSE, s |-> "", n |-> 0,
     l |-> <<>>, open |-> "", ctl |-> "", close |-> ""]

NoRequest == [sent |-> FALSE, action |-> "", flags |-> {}]

Idle ==
    [pc |-> "idle", method |-> "none",
     usec_utc |-> 0, relative |-> FALSE, zone |-> "", local_rtc |-> FALSE,
     fix_system |-> FALSE, use_ntp |-> FALSE, interactive |-> FALSE,
     curr |-> FALSE, req |-> NoRequest, answer |-> "none", capAnswer |-> "none",
     gate |-> "none", mutate |-> FALSE, result |-> Ok]

\* A peer has one call outstanding at a time; it may call again once replied to.
CanCall(p) == calls[p].pc \in {"idle", "done"}

\* The handler runs to its gate, or to an early return.
Begin(p, c, pre) ==
    calls' = [calls EXCEPT ![p] =
        IF pre.ret
        THEN [c EXCEPT !.pc = "done", !.result = pre.res]
        ELSE [c EXCEPT !.pc = "auth_wait",
                       !.req = [sent |-> TRUE, action |-> ActionId(c.method),
                                flags |-> CheckAuthorizationFlags(c.interactive)]]]

Zones == {"Europe/Paris", "Mars/Olympus", "UTC"}

SetTime(p) ==
    \E usec_utc \in -MaxUsec..MaxUsec, relative \in BOOLEAN, interactive \in BOOLEAN :
        /\ CanCall(p)
        /\ Begin(p, [Idle EXCEPT !.method = "SetTime", !.usec_utc = usec_utc,
                                 !.relative = relative, !.interactive = interactive],
                 set_time(usec_utc, relative))
        /\ UNCHANGED <<policy, cap, host, tz, out>>

SetTimezone(p) ==
    \E zone \in Zones, interactive \in BOOLEAN :
        /\ CanCall(p)
        /\ Begin(p, [Idle EXCEPT !.method = "SetTimezone", !.zone = zone,
                                 !.interactive = interactive],
                 set_timezone(zone))
        /\ UNCHANGED <<policy, cap, host, tz, out>>

SetLocalRTC(p) ==
    \E local_rtc_arg \in BOOLEAN, fix_system \in BOOLEAN, interactive \in BOOLEAN :
        LET curr == local_rtc(adjtime) IN
        /\ CanCall(p)
        /\ Begin(p, [Idle EXCEPT !.method = "SetLocalRTC", !.local_rtc = local_rtc_arg,
                                 !.fix_system = fix_system, !.interactive = interactive,
                                 !.curr = curr.val],
                 set_local_rtc(curr, local_rtc_arg, fix_system))
        /\ UNCHANGED <<policy, cap, host, tz, out>>

SetNTP(p) ==
    \E use_ntp \in BOOLEAN, interactive \in BOOLEAN :
        /\ CanCall(p)
        /\ Begin(p, [Idle EXCEPT !.method = "SetNTP", !.use_ntp = use_ntp,
                                 !.interactive = interactive],
                 set_ntp(use_ntp, interactive))
        /\ UNCHANGED <<policy, cap, host, tz, out>>

\* what the handler does once the gate has let it through
Authorized(c) ==
    CASE c.method = "SetTime" -> set_time_authorized
      [] c.method = "SetTimezone" -> set_timezone_authorized(adjtime)
      [] c.method = "SetLocalRTC" -> set_local_rtc_authorized(c.curr, c.local_rtc)
      [] OTHER -> Ok

\* a handler that rewrites the local-time link before it looks at the gate
HostAfterGate_WriteFirst(c, g, h) ==
    IF c.method = "SetTimezone" THEN <<h[1], c.zone, h[3], h[4], h[5]>> ELSE h

\* What the handler does to the host h from the gate's answer g to its reply
\* (dbus.rs:39-43, 54-67, 88-98): nothing, the writes are comments.
HostAfterGate(c, g, h) == h

\* a service that keeps the decision another call got and reuses it
AuthorityAnswer_Cached(cs, p, pol) ==
    IF \E q \in Peers \ {p} : cs[q].answer # "none"
    THEN cs[CHOOSE q \in Peers \ {p} : cs[q].answer # "none"].answer
    ELSE pol

\* dbus.rs:246-259: the answer to the request this call sent is the authority's
\* outcome now; TimeDate (dbus.rs:12-15) has no field that keeps a decision
AuthorityAnswer(cs, p, pol) == pol

\* The authority answers; check_auth decides and the handler runs to its reply.
AuthReply(p) ==
    LET c == calls[p]
        a == AuthorityAnswer(calls, p, policy)
        g == check_auth(a, cap)
    IN /\ c.pc = "auth_wait"
       /\ calls' = [calls EXCEPT ![p] =
            [c EXCEPT !.pc = "done",
                      !.answer = a,
                      !.capAnswer = IF ConsultsCap(a) THEN cap ELSE "none",
                      !.gate = g.kind,
                      !.mutate = GatePasses(g),
                      !.result = IF GatePasses(g) THEN Authorized(c) ELSE g]]
       /\ LET h == HostAfterGate(c, g, host)
          IN /\ adjtime' = h[1] /\ localtime' = h[2] /\ zonetab' = h[3]
             /\ sysclock' = h[4] /\ rtc' = h[5]
       /\ UNCHANGED <<policy, cap, tz, out>>

\* The policy changes (polkit rules, the agent's answer).
PolicyChanges ==
    /\ \E pol \in Policies \ {policy} : policy' = pol
    /\ UNCHANGED <<cap, host, calls, tz, out>>

\* The capability set of the service process changes, or the query fails.
CapChanges ==
    /\ \E c \in Caps \ {cap} : cap' = c
    /\ UNCHANGED <<policy, host, calls, tz, out>>

----------------------------------------------------------------------------
(* The specification: one peer calling, the host files as found at start   *)

AdjtimeFiles ==
    { Absent,
      <<"0.0 0 0.0", "0">>,
      <<"0.0 0 0.0", "0", "UTC">>,
      <<"0.0 0 0.0", "0", "LOCAL">> }

Links == {Absent, "Europe/Paris", Outside}

ZoneTab ==
    << <<"#comment">>,
       <<"FR", " ", "+4852+00220", " ", "Europe/Paris">>,
       <<"US", " ", "+404251-0740023", " ", "America/New_York", " ", "Eastern">> >>

Init ==
    /\ policy \in Policies
    /\ cap \in Caps
    /\ adjtime \in AdjtimeFiles
    /\ localtime \in Links
    /\ zonetab = ZoneTab
    /\ sysclock \in 1..MaxClock
    /\ rtc \in 1..MaxClock
    /\ calls = [p \in Peers |-> Idle]
    /\ tz = None
    /\ out = NoOut

Next ==
    \/ SetTime("p1")
    \/ SetTimezone("p1")
    \/ SetLocalRTC("p1")
    \/ SetNTP("p1")
    \/ AuthReply("p1")
    \/ PolicyChanges
    \/ CapChanges

Spec == Init /\ [][Next]_vars

----------------------------------------------------------------------------
(* Properties of the authorization gate and of the mutating methods *)

Mutating == {"SetTime", "SetTimezone", "SetLocalRTC"}

Replied(p) == calls[p].pc = "done"

\* the call of p ended in this step
Ends(p) == calls'[p].pc = "done" /\ calls'[p] # calls[p]

\* the handler of p started in this step
Starts(p) == calls[p].pc \in {"idle", "done"} /\ calls'[p] # calls[p]

\* C1 as stated: while the policy outcome is Denied and the service holds
\* no CAP_SYS_TIME, every SetTime, SetTimezone and SetLocalRTC call that ends,
\* whatever its arguments, ends with AuthenticationDenied.
C1_EveryCallDenied ==
    [][\A p \in Peers :
        (policy = "Denied" /\ cap = "no" /\ Ends(p) /\ calls'[p].method \in Mutating)
            => calls'[p].result = AuthDenied]_vars

\* C1 as amended: every SetTime, SetTimezone and SetLocalRTC call that reaches
\* the gate and is answered Denied while the service holds no CAP_SYS_TIME
\* fails with AuthenticationDenied and does not reach its Mutate step.
C1_GatedCallDenied ==
    \A p \in Peers :
        (Replied(p) /\ calls[p].method \in Mutating
            /\ calls[p].answer = "Denied" /\ calls[p].capAnswer = "no")
        => (calls[p].result = AuthDenied /\ ~calls[p].mutate)

C1_Witness ==
    \E p \in Peers :
        /\ Replied(p) /\ calls[p].method = "SetLocalRTC" /\ calls[p].fix_system
        /\ calls[p].answer = "Denied" /\ calls[p].capAnswer = "no"
        /\ calls[p].result = AuthDenied

\* C2: a SetTime, SetTimezone or SetLocalRTC call answered Denied while the
\* service holds CAP_SYS_TIME passes the gate and proceeds to its Mutate step;
\* it does not fail with an authorization error.
C2_CapabilityOverridesDenial ==
    \A p \in Peers :
        (Replied(p) /\ calls[p].method \in Mutating
            /\ calls[p].answer = "Denied" /\ calls[p].capAnswer = "yes")
        => (calls[p].gate = "Ok" /\ calls[p].mutate /\ calls[p].result.kind # "AuthFailed")

C2_Witness ==
    \E p \in Peers :
        /\ Replied(p) /\ calls[p].method = "SetTime"
        /\ calls[p].answer = "Denied" /\ calls[p].capAnswer = "yes"
        /\ calls[p].mutate /\ calls[p].result = Ok

\* C3: a call answered "requires challenge" fails with AuthenticationRequired,
\* which is not the error a plain denial produces; has_cap is not asked and the
\* call does not reach its Mutate step, whatever capability the service holds.
C3_ChallengeFails ==
    \A p \in Peers :
        (Replied(p) /\ calls[p].answer = "ChallengeRequired")
        => /\ calls[p].result = AuthRequired
           /\ calls[p].result # AuthDenied
           /\ calls[p].capAnswer = "none"
           /\ ~calls[p].mutate

C3_Witness ==
    \E p \in Peers :
        /\ Replied(p) /\ calls[p].answer = "ChallengeRequired"
        /\ cap = "yes" /\ policy = "ChallengeRequired"
        /\ calls[p].result = AuthRequired

\* C4: a SetTime, SetTimezone or SetLocalRTC call is at or past its Mutate step
\* only after it sent a request to the gate and the gate succeeded; and no step
\* of a call changes the clock, the link, the adjustment file or the RTC
\* unless that call has passed the gate.
C4_GateBeforeMutate ==
    [][\A p \in Peers :
        /\ calls'[p].mutate => (calls'[p].req.sent /\ calls'[p].gate = "Ok")
        /\ (calls'[p] # calls[p] /\ host' # host) => calls'[p].gate = "Ok"]_vars

C4_Witness ==
    \E p \in Peers :
        /\ Replied(p) /\ calls[p].method = "SetTimezone"
        /\ calls[p].mutate /\ calls[p].gate = "Ok"

\* C5: every SetNTP call ends at once with Unsupported, for every use_ntp and
\* interactive and under every policy outcome, and sends no request to the gate.
C5_SetNTPUnsupported ==
    \A p \in Peers :
        calls[p].method = "SetNTP"
        => (Replied(p) /\ calls[p].result = NotSupported /\ ~calls[p].req.sent)

C5_Witness ==
    \E p \in Peers :
        /\ Replied(p) /\ calls[p].method = "SetNTP" /\ calls[p].use_ntp
        /\ policy = "Authorized" /\ calls[p].result = NotSupported

\* C6: SetTime with relative = false and usec_utc <= 0 ends at once with
\* InvalidArgument and sends no request to the policy authority, under every
\* policy outcome.
C6_ValidationBeforeGate ==
    \A p \in Peers :
        (calls[p].method = "SetTime" /\ ~calls[p].relative /\ calls[p].usec_utc <= 0)
        => (Replied(p) /\ calls[p].result = InvalidArgs /\ ~calls[p].req.sent)

C6_Witness ==
    \E p \in Peers :
        /\ Replied(p) /\ calls[p].method = "SetTime" /\ ~calls[p].relative
        /\ calls[p].usec_utc < 0 /\ policy = "Authorized"
        /\ calls[p].result = InvalidArgs

Range(s) == {s[i] : i \in DOMAIN s}

\* C7 as stated: a SetTimezone(z) call with z the currently active zone
\* succeeds, and leaves the local-time link and the RTC content unchanged.
C7_CurrentZoneSucceeds ==
    [][\A p \in Peers :
        (Ends(p) /\ calls'[p].method = "SetTimezone"
            /\ timezone(localtime).kind = "Ok"
            /\ calls'[p].zone = timezone(localtime).val)
        => (calls'[p].result = Ok /\ localtime' = localtime /\ rtc' = rtc)]_vars

\* C8 as stated: a SetTimezone(z) call with z not among the ids ListTimezones
\* returns is rejected with InvalidArgument, without a request to the gate and
\* without reaching its Mutate step.
C8_UnknownZoneRejected ==
    \A p \in Peers :
        (calls[p].method = "SetTimezone"
            /\ calls[p].zone \notin Range(list_timezones(zonetab).val))
        => (Replied(p) /\ calls[p].result.kind = "InvalidArgs"
            /\ ~calls[p].req.sent /\ ~calls[p].mutate)

C10_FixSystemResyncs ==
    [][\A p \in Peers :
        (Ends(p) /\ calls'[p].method = "SetLocalRTC" /\ calls'[p].fix_system
            /\ calls'[p].local_rtc = calls'[p].curr
            /\ calls'[p].gate = "Ok" /\ calls'[p].result = Ok)
        => (sysclock' = rtc /\ rtc' = rtc)]_vars

\* C11 as stated: an authorized SetLocalRTC(mode, fix_system) call with mode
\* different from the current mode returns success with mode persisted (the
\* next LocalRTC read returns it) and with the system clock and the RTC naming
\* the same instant.
C11_ModeChangePersists ==
    [][\A p \in Peers :
        (Ends(p) /\ calls'[p].method = "SetLocalRTC"
            /\ calls'[p].local_rtc # calls'[p].curr /\ calls'[p].gate = "Ok")
        => /\ calls'[p].result = Ok
           /\ local_rtc(adjtime').kind = "Ok"
           /\ local_rtc(adjtime').val = calls'[p].local_rtc
           /\ sysclock' = rtc']_vars

\* C18 as stated (method handlers): every call that ended got a reply, success
\* or a structured error; no handler aborts without one.
C18_EveryCallReplied ==
    \A p \in Peers : Replied(p) => calls[p].result.kind # "Panic"

\* C19: a SetTime, SetTimezone or SetLocalRTC call that ends with anything but
\* success leaves the adjustment file, the local-time link, the zone index, the
\* system clock and the RTC as they were.
C19_FailedCallChangesNothing ==
    [][\A p \in Peers :
        (Ends(p) /\ calls'[p].method \in Mutating /\ calls'[p].result # Ok)
        => host' = host]_vars

C19_Witness ==
    \E p \in Peers :
        /\ Replied(p) /\ calls[p].method = "SetTimezone"
        /\ calls[p].result = AuthDenied
        /\ localtime = "Europe/Paris" /\ calls[p].zone = "UTC"

----------------------------------------------------------------------------
(* The LocalRTC property over adjustment files *)

\* an adjustment file has at most MaxLines lines
MaxLines == 4

AdjLines == {"LOCAL", "UTC", "", "LOCAL ", BadLine}

\* the sequences over S of length at most n
RECURSIVE SeqsUpTo(_, _)
SeqsUpTo(S, n) ==
    IF n = 0 THEN {<<>>}
    ELSE LET T == SeqsUpTo(S, n - 1) IN T \cup {Append(t, x) : t \in T, x \in S}

AdjtimeLineSeqs == SeqsUpTo(AdjLines, MaxLines)

\* a quiet service: no call made, nothing read
Quiet ==
    /\ policy = "Denied"
    /\ cap = "no"
    /\ calls = [p \in Peers |-> Idle]
    /\ out = NoOut

InitAdj ==
    /\ Quiet
    /\ (adjtime = Absent \/ adjtime \in AdjtimeLineSeqs)
    /\ localtime = Absent
    /\ zonetab = ZoneTab
    /\ sysclock = 1
    /\ rtc = 1
    /\ tz = None

\* a peer reads the LocalRTC property
ReadLocalRTC ==
    /\ LET r == local_rtc(adjtime)
       IN out' = [NoOut EXCEPT !.op = "LocalRTC", !.kind = r.kind, !.msg = r.msg,
                               !.b = r.val]
    /\ UNCHANGED <<policy, cap, host, calls, tz>>

NextAdj == ReadLocalRTC

SpecAdj == InitAdj /\ [][NextAdj]_vars

\* the number of lines of a file that exists
Lines(file) == IF file = Absent THEN 0 ELSE Len(file)

\* C12 as stated: with the adjustment file absent, or present with fewer than
\* 3 lines, a LocalRTC read returns the value false, not an error.
C12_ShortOrAbsentIsFalse ==
    (out.op = "LocalRTC" /\ Lines(adjtime) < 3)
    => (out.kind = "Ok" /\ out.b = FALSE)

\* C13: for an adjustment file of at least 3 lines a LocalRTC read returns a
\* value, and it is true exactly when line 3 is the token "LOCAL", whatever
\* lines 1, 2 and the lines after the third are.
C13_ThirdLineDecides ==
    (out.op = "LocalRTC" /\ Lines(adjtime) >= 3)
    => (out.kind = "Ok" /\ out.b = (adjtime[3] = "LOCAL"))

C13_Witness ==
    /\ out.op = "LocalRTC" /\ Lines(adjtime) = 4
    /\ adjtime[1] = "UTC" /\ adjtime[2] = "LOCAL " /\ adjtime[3] = "LOCAL"
    /\ adjtime[4] = "UTC"
    /\ out.b

----------------------------------------------------------------------------
(* ListTimezones over zone index files *)

\* a zone index file has at most MaxTabLines lines
MaxTabLines == 3

TabLines ==
    { <<"#comment">>,
      <<"#", " ", "code", " ", "coordinates", " ", "TZ">>,
      <<"FR", " ", "+4852+00220", " ", "Europe/Paris">>,
      <<"US", " ", "+404251-0740023", " ", "America/New_York", " ", "Eastern">>,
      <<"XX", " ", "+0000+00000">>,
      <<>>,
      <<" ", "#comment">>,
      <<BadLine>> }

InitTab ==
    /\ Quiet
    /\ adjtime = Absent
    /\ localtime = Absent
    /\ (zonetab = Absent \/ zonetab \in SeqsUpTo(TabLines, MaxTabLines))
    /\ sysclock = 1
    /\ rtc = 1
    /\ tz = None

\* a peer calls ListTimezones
ListTimezones ==
    /\ LET r == list_timezones(zonetab)
       IN out' = [NoOut EXCEPT !.op = "ListTimezones", !.kind = r.kind, !.msg = r.msg,
                               !.l = r.val]
    /\ UNCHANGED <<policy, cap, host, calls, tz>>

NextTab == ListTimezones

SpecTab == InitTab /\ [][NextTab]_vars

\* the line starts with '#'
IsComment(ln) == Len(ln) > 0 /\ StartsWithHash(ln[1])

\* the whitespace-delimited fields of a line
Fields(ln) == SelectSeq(ln, LAMBDA t : t # " ")

\* the lines of a file that do not start with '#'
NonComment(file) == SelectSeq(file, LAMBDA ln : ~IsComment(ln))

\* the lines of a file that are text, do not start with '#' and have a third field
ZoneLines(file) ==
    SelectSeq(file, LAMBDA ln : ln # <<BadLine>> /\ ~IsComment(ln) /\ Len(Fields(ln)) >= 3)

\* C14 as stated: for an index file with N lines that do not start with '#',
\* ListTimezones returns exactly N entries, the i-th being the third field of
\* the i-th such line.
C14_OneEntryPerNonComment ==
    (out.op = "ListTimezones" /\ zonetab # Absent)
    => /\ out.kind = "Ok"
       /\ Len(out.l) = Len(NonComment(zonetab))
       /\ \A i \in 1..Len(out.l) :
            /\ Len(Fields(NonComment(zonetab)[i])) >= 3
            /\ out.l[i] = Fields(NonComment(zonetab)[i])[3]

\* C14 as amended: ListTimezones returns one entry per line that is valid text,
\* does not start with '#' and has at least three fields: its third field, in
\* file order; every other line adds nothing.
C14_OneEntryPerZoneLine ==
    (out.op = "ListTimezones" /\ zonetab # Absent)
    => /\ out.kind = "Ok"
       /\ Len(out.l) = Len(ZoneLines(zonetab))
       /\ \A i \in 1..Len(out.l) : out.l[i] = Fields(ZoneLines(zonetab)[i])[3]

C14_Witness ==
    /\ out.op = "ListTimezones"
    /\ zonetab # Absent
    /\ zonetab = << <<"#comment">>,
                    <<"US", " ", "+404251-0740023", " ", "America/New_York", " ", "Eastern">>,
                    <<"FR", " ", "+4852+00220", " ", "Europe/Paris">> >>
    /\ out.l = <<"America/New_York", "Europe/Paris">>

----------------------------------------------------------------------------
(* The Timezone property, whatever the rest of the host *)

\* sundiald has no override: its Timezone is that of tz = None
Overrides == {None, "Asia/Tokyo"}

InitTz ==
    /\ policy \in Policies
    /\ cap \in Caps
    /\ adjtime \in AdjtimeFiles
    /\ localtime \in Links \cup {"America/New_York"}
    /\ zonetab = ZoneTab
    /\ sysclock \in 1..MaxClock
    /\ rtc \in 1..MaxClock
    /\ calls = [p \in Peers |-> Idle]
    /\ tz \in Overrides
    /\ out = NoOut

\* a peer reads the Timezone property
ReadTimezone ==
    /\ LET r == timezone_tz(tz, localtime)
       IN out' = [NoOut EXCEPT !.op = "Timezone", !.kind = r.kind, !.msg = r.msg,
                               !.s = r.val]
    /\ UNCHANGED <<policy, cap, host, calls, tz>>

NextTz == ReadTimezone

SpecTz == InitTz /\ [][NextTz]_vars

\* C15 as stated: with the local-time link absent a Timezone read returns
\* "UTC", not an error, whatever the rest of the host state is.
C15_AbsentLinkIsUTC ==
    (out.op = "Timezone" /\ localtime = Absent)
    => (out.kind = "Ok" /\ out.s = "UTC")

\* C15 as amended: with the local-time link absent and no zone override
\* configured for the process, a Timezone read returns "UTC", not an error,
\* whatever the rest of the host state is; with an override it returns the
\* override.
C15_AbsentLinkNoOverrideIsUTC ==
    (out.op = "Timezone" /\ localtime = Absent)
    => /\ out.kind = "Ok"
       /\ out.s = IF tz = None THEN "UTC" ELSE tz

C15_Witness ==
    /\ out.op = "Timezone" /\ localtime = Absent /\ tz = None
    /\ adjtime = Absent /\ policy = "Error"
    /\ out.kind = "Ok" /\ out.s = "UTC"

----------------------------------------------------------------------------
(* The RTC bridge and the clock reader *)

\* util.rs:13
SEC_TO_USEC == 1000000
\* dbus.rs:9
NSEC_TO_USEC == 1000

\* the RTC reads a time within MaxMin minutes after the epoch, or just before it
MaxMin == 2
\* the kernel clock reads -1..MaxSec seconds
MaxSec == 2

\* days from 1970-01-01 to the civil date y-m-d (m in 1..12)
DaysFromCivil(y, m, d) ==
    LET yy == IF m <= 2 THEN y - 1 ELSE y
        era == yy \div 400
        yoe == yy - era * 400
        mp == IF m > 2 THEN m - 3 ELSE m + 9
        doy == (153 * mp + 2) \div 5 + d - 1
        doe == yoe * 365 + yoe \div 4 - yoe \div 100 + doy
    IN era * 146097 + doe - 719468

\* libc::timegm on the fields From<RtcTime> for libc::tm copies (util.rs:45-62):
\* year counts from 1900, mon from 0, the fields are taken as UTC
timegm(tm) ==
    DaysFromCivil(tm.year + 1900, tm.mon + 1, tm.mday) * 86400
        + tm.hour * 3600 + tm.min * 60 + tm.sec

\* i64 -> u64 by .try_into().unwrap_or_default() (util.rs:104-105,
\* dbus.rs:208-209): a value that does not fit becomes 0.  The products stay
\* far inside i64 for the times read here.
to_u64(v) == IF v < 0 THEN 0 ELSE v

\* nix::Result of the bridge: Ok with a value, or the errno
RtcOk(v) == [kind |-> "Ok", msg |-> "", n |-> v]
RtcErr(errno) == [kind |-> "Errno", msg |-> errno, n |-> 0]

\* util.rs:108-111, 124-127: the close error is returned whatever ret is
hwclock_result(ret, close) ==
    IF close # "ok" THEN RtcErr(close) ELSE ret

\* util.rs:99-115; open, read and close are what rtc_open, rtc_read and
\* rtc_close answer ("ok" or an errno), tm what the device holds
get_hwclock(open, read, close, tm) ==
    IF open # "ok" THEN RtcErr(open)
    ELSE LET ret == IF read = "ok"
                    THEN RtcOk(to_u64(timegm(tm) * SEC_TO_USEC))
                    ELSE RtcErr(read)
         IN hwclock_result(ret, close)

\* util.rs:117-131
set_hwclock(open, write, close) ==
    IF open # "ok" THEN RtcErr(open)
    ELSE hwclock_result(IF write = "ok" THEN RtcOk(0) ELSE RtcErr(write), close)

\* a reader that drops the seconds
time_usec_NsecOnly(gettime, ts) ==
    IF gettime = "ok"
    THEN [kind |-> "Ok", msg |-> "", n |-> to_u64(ts.tv_nsec \div NSEC_TO_USEC)]
    ELSE IF gettime = "ENOSYS"
    THEN [kind |-> "NotSupported", msg |-> "clock_gettime not supported on this system", n |-> 0]
    ELSE [kind |-> "Failed", msg |-> "Unable to get current time", n |-> 0]

\* dbus.rs:203-227; gettime is what clock_gettime answers, ts the timespec
time_usec(gettime, ts) ==
    IF gettime = "ok"
    THEN [kind |-> "Ok", msg |-> "",
          n |-> to_u64(ts.tv_sec * SEC_TO_USEC + ts.tv_nsec \div NSEC_TO_USEC)]
    ELSE IF gettime = "ENOSYS"
    THEN [kind |-> "NotSupported", msg |-> "clock_gettime not supported on this system", n |-> 0]
    ELSE [kind |-> "Failed", msg |-> "Unable to get current time", n |-> 0]

\* a bridge that returns on a failed control call without closing
hwclock_calls_EarlyReturn(open, ctl, control) ==
    IF open # "ok" THEN <<"rtc_open">>
    ELSE IF ctl # "ok" THEN <<"rtc_open", control>>
    ELSE <<"rtc_open", control, "rtc_close">>

\* util.rs:99-131: the device calls get_hwclock (control = "rtc_read") and
\* set_hwclock (control = "rtc_write") make, in order
hwclock_calls(open, ctl, control) ==
    IF open # "ok" THEN <<"rtc_open">>
    ELSE <<"rtc_open", control, "rtc_close">>

OpenAnswers == {"ok", "ENOENT", "EBUSY"}
ControlAnswers == {"ok", "EINVAL"}
CloseAnswers == {"ok", "EIO"}
GettimeAnswers == {"ok", "ENOSYS", "EINVAL", "EPERM"}

\* what RTC_RD_TIME can put into the buffer (linux/rtc.h rtc_time, util.rs:17-27)
RtcTimes ==
    {[year |-> 70, mon |-> 0, mday |-> 1, hour |-> 0, min |-> m, sec |-> sec] :
        m \in 0..MaxMin, sec \in {0, 30, 59}}
    \cup {[year |-> 69, mon |-> 11, mday |-> 31, hour |-> 23, min |-> 59, sec |-> sec] :
        sec \in {0, 59}}

\* what clock_gettime(CLOCK_REALTIME) can return
Timespecs ==
    {[tv_sec |-> sec, tv_nsec |-> ns] : sec \in -1..MaxSec, ns \in {0, 999, 1000, 999999999}}

InitDev ==
    /\ Quiet
    /\ adjtime = Absent
    /\ localtime = Absent
    /\ zonetab = ZoneTab
    /\ sysclock \in Timespecs
    /\ rtc \in RtcTimes
    /\ tz = None

\* the bridge reads the RTC
GetHwclock ==
    \E open \in OpenAnswers, read \in ControlAnswers, close \in CloseAnswers :
        /\ LET r == get_hwclock(open, read, close, rtc)
           IN out' = [NoOut EXCEPT !.op = "get_hwclock", !.kind = r.kind, !.msg = r.msg,
                                   !.n = r.n, !.open = open, !.ctl = read,
                                   !.l = hwclock_calls(open, read, "rtc_read"),
                                   !.close = IF open = "ok" THEN close ELSE ""]
        /\ UNCHANGED <<policy, cap, host, calls, tz>>

\* the bridge writes the RTC
SetHwclock ==
    \E open \in OpenAnswers, write \in ControlAnswers, close \in CloseAnswers, tm \in RtcTimes :
        /\ LET r == set_hwclock(open, write, close)
           IN out' = [NoOut EXCEPT !.op = "set_hwclock", !.kind = r.kind, !.msg = r.msg,
                                   !.n = r.n, !.open = open, !.ctl = write,
                                   !.l = hwclock_calls(open, write, "rtc_write"),
                                   !.close = IF open = "ok" THEN close ELSE ""]
        /\ rtc' = IF open = "ok" /\ write = "ok" THEN tm ELSE rtc
        /\ UNCHANGED <<policy, cap, adjtime, localtime, zonetab, sysclock, calls, tz>>

\* a peer reads the TimeUSec property
ReadTimeUSec ==
    \E gettime \in GettimeAnswers :
        /\ LET r == time_usec(gettime, sysclock)
           IN out' = [NoOut EXCEPT !.op = "TimeUSec", !.kind = r.kind, !.msg = r.msg,
                                   !.n = r.n, !.ctl = gettime,
                                   \* the value of the read before this one
                                   !.l = IF out.op = "TimeUSec" /\ out.kind = "Ok"
                                         THEN <<out.n>> ELSE <<>>]
        /\ UNCHANGED <<policy, cap, host, calls, tz>>

NextDev == GetHwclock \/ SetHwclock \/ ReadTimeUSec

SpecDev == InitDev /\ [][NextDev]_vars

\* C16 as stated: when get_hwclock or set_hwclock opened the device and its
\* control call failed, the error returned is the control call's, whether or not
\* the close failed too; the close's error is returned only when the control
\* call succeeded.
C16_CloseDoesNotMask ==
    (out.op \in {"get_hwclock", "set_hwclock"} /\ out.open = "ok")
    => /\ out.ctl # "ok" => (out.kind = "Errno" /\ out.msg = out.ctl)
       /\ (out.ctl = "ok" /\ out.close # "ok") => (out.kind = "Errno" /\ out.msg = out.close)

\* the microseconds since the epoch the source of a read stands for
TrueUSec ==
    IF out.op = "get_hwclock" THEN timegm(rtc) * SEC_TO_USEC
    ELSE sysclock.tv_sec * SEC_TO_USEC + sysclock.tv_nsec \div NSEC_TO_USEC

\* C17 as stated: a get_hwclock or TimeUSec read whose time does not fit the
\* unsigned result is reported as an error; a successful read returns the
\* time itself, never a substitute.
C17_ConversionChecked ==
    (out.op \in {"get_hwclock", "TimeUSec"} /\ out.kind = "Ok")
    => (TrueUSec >= 0 /\ out.n = TrueUSec)

----------------------------------------------------------------------------
(* Calls of two peers at once *)

\* main.rs:29-33 serves one TimeDate to the whole bus; the handlers take
\* &self (dbus.rs:20, 47, 72) and TimeDate holds no lock (dbus.rs:12-15), so
\* a call of one peer runs while a call of the other is between two steps.
InitConc ==
    /\ policy \in Policies
    /\ cap \in Caps
    /\ adjtime \in {Absent, <<"0.0 0 0.0", "0", "UTC">>}
    /\ localtime = "Europe/Paris"
    /\ zonetab = ZoneTab
    /\ sysclock = 0
    /\ rtc = 0
    /\ calls = [p \in Peers |-> Idle]
    /\ tz = None
    /\ out = NoOut

\* check_auth returns to the handler (dbus.rs:37-38, 52-53, 86-87): a refused
\* call replies, an allowed one goes on to the part after the gate
GateReply(p) ==
    LET c == calls[p]
        g == check_auth(policy, cap)
    IN /\ c.pc = "auth_wait"
       /\ calls' = [calls EXCEPT ![p] = [c EXCEPT
                     !.pc = IF GatePasses(g) THEN "mutate" ELSE "done",
                     !.answer = policy,
                     !.capAnswer = IF ConsultsCap(policy) THEN cap ELSE "none",
                     !.gate = g.kind, !.mutate = GatePasses(g),
                     !.result = IF GatePasses(g) THEN c.result ELSE g]]
       /\ UNCHANGED <<policy, cap, host, tz, out>>

\* the part after the gate runs to the reply (dbus.rs:39-43, 54-67, 88-98)
Finish(p) ==
    LET c == calls[p]
    IN /\ c.pc = "mutate"
       /\ calls' = [calls EXCEPT ![p] = [c EXCEPT !.pc = "done", !.result = Authorized(c)]]
       /\ LET h == HostAfterGate(c, check_auth(c.answer, c.capAnswer), host)
          IN /\ adjtime' = h[1] /\ localtime' = h[2] /\ zonetab' = h[3]
             /\ sysclock' = h[4] /\ rtc' = h[5]
       /\ UNCHANGED <<policy, cap, tz, out>>

NextConc ==
    \E p \in Peers :
        \/ SetTime(p)
        \/ SetTimezone(p)
        \/ SetLocalRTC(p)
        \/ GateReply(p)
        \/ Finish(p)

SpecConc == InitConc /\ [][NextConc]_vars

\* C20 as stated: at most one call at a time is between passing the gate and
\* its reply, that is, in its Mutate .. Resynchronize steps.
C20_MutatingSerialized ==
    Cardinality({p \in Peers : calls[p].pc = "mutate"}) <= 1

----------------------------------------------------------------------------
(* The gate, call after call *)

\* C26: a SetTime call with relative = true and usec_utc = 0 ends at once
\* with success, sends no request to the policy authority and leaves the
\* system clock and the RTC as they were, under every policy outcome and
\* capability.
C26_ZeroRelativeSucceeds ==
    [][\A p \in Peers :
        (Starts(p) /\ calls'[p].method = "SetTime" /\ calls'[p].relative
            /\ calls'[p].usec_utc = 0)
        => /\ calls'[p].pc = "done" /\ calls'[p].result = Ok
           /\ ~calls'[p].req.sent /\ ~calls'[p].mutate
           /\ sysclock' = sysclock /\ rtc' = rtc]_vars

C26_Witness ==
    \E p \in Peers :
        /\ Replied(p) /\ calls[p].method = "SetTime" /\ calls[p].relative
        /\ calls[p].usec_utc = 0 /\ calls[p].result = Ok /\ ~calls[p].req.sent
        /\ policy = "Denied" /\ cap = "no"

\* C27: a SetTime, SetTimezone or SetLocalRTC call whose request to the policy
\* authority failed ends with that error, has_cap is not asked and the call does
\* not reach its Mutate step; a call answered Denied whose has_cap query failed
\* ends with AuthenticationDenied and does not reach its Mutate step.
C27_GateErrorsFail ==
    \A p \in Peers :
        (Replied(p) /\ calls[p].method \in Mutating)
        => /\ calls[p].answer = "Error"
                => (calls[p].result = AuthorityError /\ calls[p].capAnswer = "none"
                    /\ ~calls[p].mutate)
           /\ (calls[p].answer = "Denied" /\ calls[p].capAnswer = "err")
                => (calls[p].result = AuthDenied /\ ~calls[p].mutate)

C27_Witness ==
    \E p \in Peers :
        /\ Replied(p) /\ calls[p].method = "SetTimezone"
        /\ calls[p].answer = "Error" /\ cap = "yes"
        /\ calls[p].result = AuthorityError /\ calls[p].capAnswer = "none"

\* Two peers call one after the other or at once while the policy changes.
InitSeq ==
    /\ policy \in Policies
    /\ cap \in Caps
    /\ adjtime = <<"0.0 0 0.0", "0", "UTC">>
    /\ localtime = "Europe/Paris"
    /\ zonetab = ZoneTab
    /\ sysclock = 1
    /\ rtc = 1
    /\ calls = [p \in Peers |-> Idle]
    /\ tz = None
    /\ out = NoOut

NextSeq ==
    \/ \E p \in Peers :
        \/ SetTime(p)
        \/ SetTimezone(p)
        \/ SetLocalRTC(p)
        \/ AuthReply(p)
    \/ PolicyChanges

SpecSeq == InitSeq /\ [][NextSeq]_vars

\* C22: every call that reaches the gate sent its own request, and the answer
\* it is decided on is the policy outcome at the time of the answer, whatever
\* earlier calls were answered: answered Denied without CAP_SYS_TIME it fails
\* with AuthenticationDenied, answered Authorized it passes the gate.
C22_FreshDecision ==
    [][\A p \in Peers :
        (Ends(p) /\ calls[p].pc = "auth_wait")
        => /\ calls'[p].req.sent
           /\ calls'[p].req.action = ActionId(calls'[p].method)
           /\ calls'[p].answer = policy
           /\ (policy = "Denied" /\ cap # "yes")
                => (calls'[p].result = AuthDenied /\ ~calls'[p].mutate)
           /\ policy = "Authorized" => calls'[p].mutate]_vars

\* two identical SetTime calls: the first was answered Authorized and
\* succeeded, the other was answered Denied and failed
C22_Witness ==
    /\ policy = "Denied" /\ cap = "no"
    /\ Replied("p1") /\ Replied("p2")
    /\ calls["p1"].method = "SetTime" /\ calls["p2"].method = "SetTime"
    /\ calls["p1"].usec_utc = calls["p2"].usec_utc
    /\ calls["p1"].relative = calls["p2"].relative
    /\ calls["p1"].interactive = calls["p2"].interactive
    /\ calls["p1"].answer = "Authorized" /\ calls["p1"].result = Ok
    /\ calls["p2"].answer = "Denied" /\ calls["p2"].result = AuthDenied

----------------------------------------------------------------------------
(* The RTC time, there and back *)

\* the calendar fields of a count of seconds since the epoch, as gmtime gives
\* them and From<libc::tm> for RtcTime (util.rs:29-43) copies them
gmtime(secs) ==
    LET z == secs \div 86400 + 719468
        rem == secs % 86400
        era == z \div 146097
        doe == z - era * 146097
        yoe == (doe - doe \div 1460 + doe \div 36524 - doe \div 146096) \div 365
        doy == doe - (365 * yoe + yoe \div 4 - yoe \div 100)
        mp == (5 * doy + 2) \div 153
        d == doy - (153 * mp + 2) \div 5 + 1
        m == IF mp < 10 THEN mp + 3 ELSE mp - 9
        y == yoe + era * 400 + (IF m <= 2 THEN 1 ELSE 0)
    IN [year |-> y - 1900, mon |-> m - 1, mday |-> d,
        hour |-> rem \div 3600, min |-> (rem % 3600) \div 60, sec |-> rem % 60]

\* C24 as stated: the microseconds get_hwclock returns for the RTC's fields
\* decode to those same fields (the fields are read as UTC both ways).
C24_RoundTrip ==
    (out.op = "get_hwclock" /\ out.kind = "Ok")
    => gmtime(out.n \div SEC_TO_USEC) = rtc

----------------------------------------------------------------------------
(* The device handle *)

CountOf(l, x) == Cardinality({i \in DOMAIN l : l[i] = x})

\* the handles a run of device calls leaves open, given what rtc_open answered
OpenHandles(l, open) ==
    (IF open = "ok" THEN CountOf(l, "rtc_open") ELSE 0) - CountOf(l, "rtc_close")

\* C28: a get_hwclock or set_hwclock call that opened the device closes it
\* exactly once, as its last device call, whether the control call succeeded
\* or failed, and leaves no handle open; when the open failed, no close is
\* attempted.
C28_ClosedExactlyOnce ==
    out.op \in {"get_hwclock", "set_hwclock"}
    => /\ out.open = "ok"
            => /\ CountOf(out.l, "rtc_close") = 1
               /\ out.l[Len(out.l)] = "rtc_close"
       /\ out.open # "ok" => CountOf(out.l, "rtc_close") = 0
       /\ OpenHandles(out.l, out.open) = 0

C28_Witness ==
    /\ out.op = "get_hwclock" /\ out.open = "ok" /\ out.ctl = "EINVAL"
    /\ out.l = <<"rtc_open", "rtc_read", "rtc_close">>

----------------------------------------------------------------------------
(* The clock status reader *)

\* dbus.rs:10
MAX_PHASE == 500000000

\* x << 5 on a c_long far from its width
Shl5(x) == x * 32

\* a reader that counts an estimate at the threshold as synchronized
ntp_synchronized_Inclusive(ret, maxerror) ==
    IF ret < 0 THEN FALSE
    ELSE maxerror <= Shl5(MAX_PHASE \div NSEC_TO_USEC)

\* dbus.rs:185-199; ret is what adjtimex returns, maxerror what buf holds
ntp_synchronized(ret, maxerror) ==
    IF ret < 0 THEN FALSE
    ELSE maxerror < Shl5(MAX_PHASE \div NSEC_TO_USEC)

\* the estimates the kernel reports lie within MaxErrDelta of the threshold,
\* or are 0
MaxErrDelta == 3

MaxErrors ==
    {0} \cup ((16000000 - MaxErrDelta)..(16000000 + MaxErrDelta))

\* adjtimex(2): -1 on failure, else the clock state TIME_OK (0) .. TIME_ERROR (5)
AdjtimexAnswers == {-1, 0, 5}

InitClock ==
    /\ Quiet
    /\ adjtime = Absent
    /\ localtime = Absent
    /\ zonetab = ZoneTab
    /\ sysclock \in Timespecs
    /\ rtc = 1
    /\ tz = None

Later(a, b) ==
    a.tv_sec < b.tv_sec \/ (a.tv_sec = b.tv_sec /\ a.tv_nsec < b.tv_nsec)

\* real time passes; nobody sets the clock
Tick ==
    /\ \E ts \in Timespecs : Later(sysclock, ts) /\ sysclock' = ts
    /\ UNCHANGED <<policy, cap, adjtime, localtime, zonetab, rtc, calls, tz, out>>

\* a peer reads the NTPSynchronized property; a failed adjtimex leaves the
\* zeroed buf as it was (dbus.rs:189-190)
ReadNTPSynchronized ==
    \E ret \in AdjtimexAnswers, kernel \in MaxErrors :
        /\ LET maxerror == IF ret < 0 THEN 0 ELSE kernel
           IN out' = [NoOut EXCEPT !.op = "NTPSynchronized", !.kind = "Ok",
                                   !.b = ntp_synchronized(ret, maxerror),
                                   !.l = <<ret, maxerror>>]
        /\ UNCHANGED <<policy, cap, host, calls, tz>>

NextClock == Tick \/ ReadTimeUSec \/ ReadNTPSynchronized

SpecClock == InitClock /\ [][NextClock]_vars

\* C23: of two successful TimeUSec reads, the second made later in real time
\* with no SetTime in between, the second value is at least the first.
C23_TimeUSecMonotonic ==
    (out.op = "TimeUSec" /\ out.kind = "Ok" /\ out.l # <<>>)
    => out.n >= out.l[1]

C23_Witness ==
    /\ out.op = "TimeUSec" /\ out.kind = "Ok" /\ out.l # <<>>
    /\ out.n > out.l[1] /\ out.l[1] > 0

\* C25: an NTPSynchronized read never fails; it is false when adjtimex failed,
\* and otherwise true exactly when maxerror is below
\* (500_000_000 / 1_000) << 5 = 16_000_000.
C25_NTPSynchronized ==
    out.op = "NTPSynchronized"
    => /\ out.kind = "Ok"
       /\ out.l[1] < 0 => ~out.b
       /\ out.l[1] >= 0 => (out.b <=> out.l[2] < 16000000)

C25_Witness ==
    /\ out.op = "NTPSynchronized" /\ out.l = <<0, 16000000>> /\ ~out.b

----------------------------------------------------------------------------
(* Property reads while a call waits for the authority *)

\* setters that take &mut self
HandlerBorrow_SettersExclusive(method) ==
    IF method \in Mutating THEN "exclusive" ELSE "shared"

\* every handler of the interface takes &self (dbus.rs:20, 47, 72, 103, 108,
\* 127, 144, 187, 203, 231, 245)
HandlerBorrow(method) == "shared"

\* the object server lets a handler run unless a handler suspended in
\* check_authorization(..).await (dbus.rs:246-259) borrows the interface
\* exclusively, or the handler to run does
InterfaceFree(cs, method) ==
    \A q \in Peers :
        cs[q].pc = "auth_wait"
        => (HandlerBorrow(cs[q].method) = "shared" /\ HandlerBorrow(method) = "shared")

Properties == {"Timezone", "LocalRTC", "NTPSynchronized", "TimeUSec", "RTCTimeUSec"}

\* the handler of the property prop runs to its reply
Get(prop) ==
    /\ InterfaceFree(calls, prop)
    /\ \/ prop = "Timezone" /\ ReadTimezone
       \/ prop = "LocalRTC" /\ ReadLocalRTC
       \/ prop = "NTPSynchronized" /\ ReadNTPSynchronized
       \/ prop = "TimeUSec" /\ ReadTimeUSec
       \/ prop = "RTCTimeUSec" /\ GetHwclock

\* a peer reads one of the read-only properties
ReadProperty == \E prop \in Properties : Get(prop)

InitBus ==
    /\ policy \in Policies
    /\ cap \in Caps
    /\ adjtime \in {Absent, <<"0.0 0 0.0", "0", "LOCAL">>}
    /\ localtime = "Europe/Paris"
    /\ zonetab = ZoneTab
    /\ sysclock = [tv_sec |-> 1, tv_nsec |-> 1000]
    /\ rtc = [year |-> 70, mon |-> 0, mday |-> 1, hour |-> 0, min |-> 0, sec |-> 1]
    /\ calls = [p \in Peers |-> Idle]
    /\ tz = None
    /\ out = NoOut

NextBus ==
    \/ SetTime("p1")
    \/ SetTimezone("p1")
    \/ SetLocalRTC("p1")
    \/ AuthReply("p1")
    \/ ReadProperty

SpecBus == InitBus /\ [][NextBus]_vars

\* C21: whenever a SetTime, SetTimezone or SetLocalRTC call is suspended
\* waiting for the policy authority's answer, a read of Timezone, LocalRTC,
\* NTPSynchronized, TimeUSec or RTCTimeUSec can run to its reply at once,
\* without that answer.
C21_ReadsNotBlocked ==
    (\E p \in Peers : calls[p].pc = "auth_wait" /\ calls[p].method \in Mutating)
    => \A prop \in Properties : ENABLED Get(prop)

\* a property value was delivered and the SetTimezone call still waits
C21_Witness ==
    /\ calls["p1"].pc = "auth_wait" /\ calls["p1"].method = "SetTimezone"
    /\ out.op = "get_hwclock" /\ out.kind = "Ok" /\ out.n = 1000000

====
